---- MODULE Spec2Model ----
(***************************************************************************)
(* Azure ML pipeline lab: the Deploy stage script (deploy.py) with its     *)
(* registration gate and delete-then-deploy publish, and the five-step     *)
(* pipeline (ingest, preprocess, train, evaluate, deploy) declared with    *)
(* PythonScriptStep and submitted as one Pipeline.  Further: the key vault  *)
(* sidecar poll loop, score.py, evaluate.py, preprocess.py, the           *)
(* hyperdrive experiment and the dataset registration cell of the tuning   *)
(* notebook, and init-lab-vm.ps1.                                          *)
(***************************************************************************)
EXTENDS Integers, Sequences, FiniteSets, TLC

\* ------------------------------------------------------------------ bounds
MaxDeploys == 3      \* Deploy executions in one behaviour
MaxRuns == 3         \* pipeline Runs submitted in one behaviour
MaxListings == 2     \* distinct secret listings the vault returns
MaxRequests == 3     \* requests sent to the scoring endpoint
MaxModels == 2       \* distinct model.pt files the endpoint may load
MaxVector == 1       \* feature vectors are numbered 0..MaxVector
MaxTest == 3         \* records in the test split read by evaluate.py
MaxRecords == 6      \* records in the csv files read by preprocess.py
MaxPreps == 2        \* executions of preprocess.py
MaxRmse == 2         \* a child run logs an rmse in 1..MaxRmse
MaxCellRuns == 6     \* executions of the dataset registration cell
MaxScriptRuns == 3   \* executions of init-lab-vm.ps1

\* Accuracy values in percent (0.85, 0.90, 0.95) and test-data identities.
Accuracies == {85, 90, 95}
TestDirs == {"A", "B"}

VARIABLES
    \* workspace state touched by deploy.py
    registry,     \* versions registered under model_name: sequence of tag maps
    services,     \* web services deployed under service_name
    scoring_uri,  \* content of scoring_uri.txt: the model the written uri serves
    \* deploy.py: position and locals of the current execution
    dpc, accuracy, test_dir, new_model, model, error,
    \* observers of the current Deploy execution
    events,       \* registry/endpoint calls made so far, in order
    pre,          \* registry and services when the execution started
    execs,
    written,      \* the directories the execution has written into
    \* the pipeline and its Runs
    steps,        \* the submitted Stage graph: stage -> declared step
    runStatus,    \* status of the current Run
    status,       \* status of each Stage Execution of the current Run
    order,        \* stages of the current Run in the order they were started or reused
    outver,       \* per stage, the Run that computed the outputs it passes on
    cached,       \* per stage, its last successful execution (inputs, outputs)
    runs,
    \* the az sidecar container
    ppc,          \* position in the shell script
    index_html,   \* content of /data/index.html, served by nginx
    sleepFor,     \* seconds of the sleep in progress (0: not sleeping)
    lastPoll,     \* outcome of the latest finished secret-list command
    fileBefore,   \* content of index.html when the latest secret-list began
    served,       \* body of the latest response of the nginx container
    authed,       \* the start-up commands that have succeeded
    \* score.py
    loaded_model, \* the global `model` (0: init has not run)
    answers,      \* the requests handled so far, each with its outcome
    \* evaluate.py
    epc,              \* position in the script
    loaded_validy,    \* labels of the test split
    predictions,      \* loaded_model.predict(loaded_validx)
    eval_accuracy,    \* the variable `accuracy`, a fraction num/den
    accuracy_file,    \* content of accuracy_dir/accuracy_file
    eval_error,       \* the exception that ended the script
    \* preprocess.py
    prc,              \* position in the script
    all_files,        \* glob of iris_data_dir/*.csv: a sequence of files
    dataset,          \* the concatenated records
    split,            \* X_train, X_test, Y_train, Y_test
    dirs,             \* the output directories that exist
    files,            \* the output files written: directory, name, content
    prep_error,       \* the exception that ended the script
    prep_history,     \* the finished executions: input, outcome and outputs
    \* hyperdrive notebook
    hd_status,        \* status of the hyperdrive experiment
    hd_started,       \* child runs started so far
    hd_running,       \* child runs running now
    hd_completed,     \* completed child runs, counted by the rmse they logged
    hd_failed,        \* failed child runs
    nb_pc,            \* position of the notebook
    best_run,         \* rmse of the run returned as best, 0 for None
    nb_error,         \* the exception raised by the notebook
    \* hyperdrive notebook: the dataset registration cell
    cpc,              \* position in the cell
    ds_versions,      \* versions of 'diabetes' registered in the workspace
    cell_runs,        \* executions of the cell so far
    cell_prints,      \* what the executions have printed, in order
    \* init-lab-vm.ps1
    hpc,              \* the next command of the script (0: Disable-ScheduledTask)
    task,             \* state of the ServerManager scheduled task
    hosts,            \* the lines of the hosts file
    hosts0,           \* the lines of the hosts file before the first execution
    script_runs       \* executions of the script started so far

deployVars == <<registry, services, scoring_uri, dpc, accuracy, test_dir,
                new_model, model, error, events, pre, execs, written>>

pipeVars == <<steps, runStatus, status, order, outver, cached, runs>>

pollVars == <<ppc, index_html, sleepFor, lastPoll, fileBefore, served, authed>>

\* Everything outside the pipeline notebook's deploy.py and Pipeline.
scoreVars == <<loaded_model, answers>>

evalVars == <<epc, loaded_validy, predictions, eval_accuracy, accuracy_file,
              eval_error>>

prepVars == <<prc, all_files, dataset, split, dirs, files, prep_error,
              prep_history>>

hdVars == <<hd_status, hd_started, hd_running, hd_completed, hd_failed, nb_pc,
            best_run, nb_error>>

dsVars == <<cpc, ds_versions, cell_runs, cell_prints>>

hostVars == <<hpc, task, hosts, hosts0, script_runs>>

labVars == <<pollVars, scoreVars, evalVars, prepVars, hdVars, dsVars, hostVars>>

vars == <<deployVars, pipeVars, labVars>>

\* ---------------------------------------------------------------- deploy.py

Tags(acc, td) == [accuracy |-> acc, test_data |-> td]

\* Model(workspace, model_name) raises WebserviceException when nothing is
\* registered under the name.
ModelLookupRaises(reg) == reg = <<>>

\* The latest registered version of the model.
LatestModel(reg) == reg[Len(reg)]

ShouldRegister_TestDirOnlyWithAccuracy(prev_accuracy, prev_test_dir, acc, td) ==
    prev_test_dir # td /\ prev_accuracy >= acc

\* The condition of the gate's if statement.
ShouldRegister(prev_accuracy, prev_test_dir, acc, td) ==
    prev_test_dir # td \/ prev_accuracy >= acc

NewModel_LookupFailureIgnored(reg, acc, td) ==
    IF ModelLookupRaises(reg)
    THEN FALSE
    ELSE ShouldRegister(LatestModel(reg).accuracy, LatestModel(reg).test_data, acc, td)

\* The value of new_model after the try/except of the gate.
NewModel(reg, acc, td) ==
    IF ModelLookupRaises(reg)
    THEN TRUE
    ELSE ShouldRegister(LatestModel(reg).accuracy, LatestModel(reg).test_data, acc, td)

\* register_model: Model.register adds a version carrying the two tags.
register_model(reg, acc, td) == Append(reg, Tags(acc, td))

BranchAfterGate_AlwaysPublish(nm) == "publish"

\* if new_model: ... else: ...
BranchAfterGate(nm) == IF nm THEN "publish" ELSE "lookup"

InitDeploy ==
    /\ registry = <<>>
    /\ services = {}
    /\ scoring_uri = 0
    /\ dpc = "idle"
    /\ accuracy = 0
    /\ test_dir = ""
    /\ new_model = FALSE
    /\ model = 0
    /\ error = ""
    /\ events = <<>>
    /\ pre = [registry |-> <<>>, services |-> {}]
    /\ execs = 0
    /\ written = {}

\* One execution of deploy.py begins: arguments parsed, accuracy_file read.
StartDeploy ==
    /\ dpc \in {"idle", "done", "failed"}
    /\ execs < MaxDeploys
    /\ \E a \in Accuracies, t \in TestDirs :
          /\ accuracy' = a
          /\ test_dir' = t
    /\ dpc' = "gate"
    /\ new_model' = FALSE
    /\ model' = 0
    /\ error' = ""
    /\ events' = <<>>
    /\ pre' = [registry |-> registry, services |-> services]
    /\ execs' = execs + 1
    /\ UNCHANGED <<registry, services, scoring_uri>>
    /\ written' = {}
    /\ UNCHANGED pipeVars
    /\ UNCHANGED labVars

\* The registration gate.
DeployGate ==
    /\ dpc = "gate"
    /\ new_model' = NewModel(registry, accuracy, test_dir)
    /\ IF new_model'
       THEN /\ registry' = register_model(registry, accuracy, test_dir)
            /\ events' = Append(events, "register")
       ELSE UNCHANGED <<registry, events>>
    /\ model' = Len(registry')
    /\ dpc' = BranchAfterGate(new_model')
    /\ UNCHANGED <<services, scoring_uri, accuracy, test_dir, error, pre, execs>>
    /\ UNCHANGED written
    /\ UNCHANGED pipeVars
    /\ UNCHANGED labVars

PublishDelete_Skip ==
    /\ dpc = "publish"
    /\ dpc' = "deploy"
    /\ UNCHANGED <<registry, services, scoring_uri, accuracy, test_dir,
                   new_model, model, error, events, pre, execs>>
    /\ UNCHANGED written
    /\ UNCHANGED pipeVars
    /\ UNCHANGED labVars

\* try: service = Webservice(...); if service: service.delete()
\* except WebserviceException: the service does not exist, nothing to delete.
PublishDelete ==
    /\ dpc = "publish"
    /\ IF services # {}
       THEN /\ services' = {}
            /\ events' = Append(events, "delete")
       ELSE UNCHANGED <<services, events>>
    /\ dpc' = "deploy"
    /\ UNCHANGED <<registry, scoring_uri, accuracy, test_dir, new_model, model,
                   error, pre, execs>>
    /\ UNCHANGED written
    /\ UNCHANGED pipeVars
    /\ UNCHANGED labVars

DeployService_Stale ==
    /\ dpc = "deploy"
    /\ services' = services \cup {[model |-> Len(pre.registry)]}
    /\ events' = Append(events, "deploy")
    /\ dpc' = "write_uri"
    /\ UNCHANGED <<registry, scoring_uri, accuracy, test_dir, new_model, model,
                   error, pre, execs>>
    /\ UNCHANGED written
    /\ UNCHANGED pipeVars
    /\ UNCHANGED labVars

\* Model.deploy(workspace, service_name, [model], ...) and
\* wait_for_deployment(True) succeed: the service serves `model`.
DeployService ==
    /\ dpc = "deploy"
    /\ services' = services \cup {[model |-> model]}
    /\ events' = Append(events, "deploy")
    /\ dpc' = "write_uri"
    /\ UNCHANGED <<registry, scoring_uri, accuracy, test_dir, new_model, model,
                   error, pre, execs>>
    /\ UNCHANGED written
    /\ UNCHANGED pipeVars
    /\ UNCHANGED labVars

\* The deployment fails: the exception is not caught and the script ends.
DeployServiceFails ==
    /\ dpc = "deploy"
    /\ dpc' = "failed"
    /\ error' = "deploy"
    /\ UNCHANGED <<registry, services, scoring_uri, accuracy, test_dir,
                   new_model, model, events, pre, execs>>
    /\ UNCHANGED written
    /\ UNCHANGED pipeVars
    /\ UNCHANGED labVars

LookupService_Swallow ==
    /\ dpc = "lookup"
    /\ dpc' = "write_uri"
    /\ UNCHANGED <<registry, services, scoring_uri, accuracy, test_dir,
                   new_model, model, error, events, pre, execs>>
    /\ UNCHANGED written
    /\ UNCHANGED pipeVars
    /\ UNCHANGED labVars

\* else: service = Webservice(workspace, name=service_name), outside any try.
LookupService ==
    /\ dpc = "lookup"
    /\ IF services = {}
       THEN /\ dpc' = "failed"
            /\ error' = "service_lookup"
       ELSE /\ dpc' = "write_uri"
            /\ UNCHANGED error
    /\ UNCHANGED <<registry, services, scoring_uri, accuracy, test_dir,
                   new_model, model, events, pre, execs>>
    /\ UNCHANGED written
    /\ UNCHANGED pipeVars
    /\ UNCHANGED labVars

\* open(model_dir + '/scoring_uri.txt', 'w+'): the directory the uri file is
\* created in.
ScoringUriDir == "model_dir"

\* Output scoring url to file.
WriteScoringUri ==
    /\ dpc = "write_uri"
    /\ scoring_uri' = IF services = {} THEN 0
                      ELSE (CHOOSE s \in services : TRUE).model
    /\ dpc' = "done"
    /\ UNCHANGED <<registry, services, accuracy, test_dir, new_model, model,
                   error, events, pre, execs>>
    /\ written' = written \cup {ScoringUriDir}
    /\ UNCHANGED pipeVars
    /\ UNCHANGED labVars

\* ------------------------------------------------- the declared pipeline

\* The PipelineData objects, and the DataReference to the default datastore.
DataRefs == {"iris_data_dir", "train_dir", "output_dir", "accuracy_dir",
             "model_dir", "test_dir"}

ingestion_step_NoReuse ==
    [script |-> "ingest.py", inputs |-> {"datastore_reference"},
     outputs |-> {"iris_data_dir"}, allow_reuse |-> FALSE]

ingestion_step ==
    [script |-> "ingest.py", inputs |-> {"datastore_reference"},
     outputs |-> {"iris_data_dir"}, allow_reuse |-> TRUE]

preprocess_step_OutputsModelDir ==
    [script |-> "preprocess.py", inputs |-> {"iris_data_dir"},
     outputs |-> {"train_dir", "model_dir"}, allow_reuse |-> TRUE]

preprocess_step ==
    [script |-> "preprocess.py", inputs |-> {"iris_data_dir"},
     outputs |-> {"train_dir", "test_dir"}, allow_reuse |-> TRUE]

train_step_Reusable ==
    [script |-> "train.py", inputs |-> {"train_dir"},
     outputs |-> {"model_dir"}, allow_reuse |-> TRUE]

train_step ==
    [script |-> "train.py", inputs |-> {"train_dir"},
     outputs |-> {"model_dir"}, allow_reuse |-> FALSE]

evaluate_step_TestDirOnly ==
    [script |-> "evaluate.py", inputs |-> {"test_dir"},
     outputs |-> {"accuracy_dir"}, allow_reuse |-> TRUE]

evaluate_step ==
    [script |-> "evaluate.py", inputs |-> {"test_dir", "model_dir"},
     outputs |-> {"accuracy_dir"}, allow_reuse |-> TRUE]

deploy_step_NoAccuracyInput ==
    [script |-> "deploy.py", inputs |-> {"test_dir", "model_dir"},
     outputs |-> {"output_dir"}, allow_reuse |-> TRUE]

deploy_step ==
    [script |-> "deploy.py", inputs |-> {"test_dir", "accuracy_dir", "model_dir"},
     outputs |-> {"output_dir"}, allow_reuse |-> TRUE]

\* Pipeline(workspace=ws, steps=[...]): the steps in the order they are listed.
StageOrder == <<"ingest", "preprocess", "train", "evaluate", "deploy">>

Stages == {StageOrder[i] : i \in 1..Len(StageOrder)}

PipelineSteps ==
    [s \in Stages |->
        CASE s = "ingest" -> ingestion_step
          [] s = "preprocess" -> preprocess_step
          [] s = "train" -> train_step
          [] s = "evaluate" -> evaluate_step
          [] s = "deploy" -> deploy_step]

\* The terminal statuses a stage's script can exit with. ingest.py fails when
\* the download fails, preprocess.py when no record can be read, train.py when
\* the fit fails, deploy.py when the deployment or the service lookup fails.
\* evaluate.py calls os.path.exists without importing os: after computing the
\* accuracy it always ends with a NameError, before writing accuracy_file.
UnitOutcomes(script) ==
    IF script = "evaluate.py" THEN {"failed"} ELSE {"succeeded", "failed"}

\* ------------------------------------------ dependency resolver, orchestrator

\* The stages producing one of the inputs of stage s.
Producers(g, s) == {p \in Stages : g[p].outputs \cap g[s].inputs # {}}

RECURSIVE UpstreamWithin(_, _, _)
\* The stages reachable from the set `from` along Producers in at most n steps.
UpstreamWithin(g, from, n) ==
    IF n = 0 THEN from
    ELSE LET next == from \cup UNION {Producers(g, s) : s \in from}
         IN UpstreamWithin(g, next, n - 1)

\* Every stage s depends on, directly or transitively.
Upstream(g, s) == UpstreamWithin(g, Producers(g, s), Cardinality(Stages))

HasCycle_Never(g) == FALSE

\* The declared data dependencies form a cycle.
HasCycle(g) == \E s \in Stages : s \in Upstream(g, s)

Done(st, s) == st[s] \in {"succeeded", "reused"}

\* Stage s may leave pending: every producer of its inputs has finished.
Ready(g, st, s) ==
    /\ st[s] = "pending"
    /\ \A p \in Producers(g, s) : Done(st, p)

\* The resolved inputs of s: which execution computed each producer's outputs.
ResolvedInputs(g, ov, s) == [p \in Producers(g, s) |-> ov[p]]

NoExecution == [ins |-> <<>>, out |-> 0]

\* allow_reuse is set and a prior successful execution had the same inputs.
Reusable(g, ov, ca, s) ==
    /\ g[s].allow_reuse
    /\ ca[s].out # 0
    /\ ca[s].ins = ResolvedInputs(g, ov, s)

InitPipe ==
    /\ steps = PipelineSteps
    /\ runStatus = "none"
    /\ status = [s \in Stages |-> "pending"]
    /\ order = <<>>
    /\ outver = [s \in Stages |-> 0]
    /\ cached = [s \in Stages |-> NoExecution]
    /\ runs = 0

\* Experiment(...).submit(pipeline): a cyclic graph is rejected with a
\* ConfigurationError before anything runs; otherwise a Run begins with every
\* Stage Execution pending.
SubmitPipeline ==
    /\ runStatus \in {"none", "completed", "failed", "rejected"}
    /\ \A s \in Stages : status[s] # "running"
    /\ runs < MaxRuns
    /\ runs' = runs + 1
    /\ runStatus' = IF HasCycle(steps) THEN "rejected" ELSE "running"
    /\ status' = [s \in Stages |-> "pending"]
    /\ order' = <<>>
    /\ outver' = [s \in Stages |-> 0]
    /\ UNCHANGED <<steps, cached>>
    /\ UNCHANGED deployVars
    /\ UNCHANGED labVars

\* pending -> running
StartStage(s) ==
    /\ runStatus \in {"running", "failed"}
    /\ Ready(steps, status, s)
    /\ ~Reusable(steps, outver, cached, s)
    /\ status' = [status EXCEPT ![s] = "running"]
    /\ order' = Append(order, s)
    /\ UNCHANGED <<steps, runStatus, outver, cached, runs>>
    /\ UNCHANGED deployVars
    /\ UNCHANGED labVars

AllDone(st) == \A s \in Stages : Done(st, s)

\* pending -> reused: the unit is not executed, the prior outputs are passed on.
ReuseStage(s) ==
    /\ runStatus \in {"running", "failed"}
    /\ Ready(steps, status, s)
    /\ Reusable(steps, outver, cached, s)
    /\ status' = [status EXCEPT ![s] = "reused"]
    /\ order' = Append(order, s)
    /\ outver' = [outver EXCEPT ![s] = cached[s].out]
    /\ runStatus' = IF runStatus = "running" /\ AllDone(status') THEN "completed"
                    ELSE runStatus
    /\ UNCHANGED <<steps, cached, runs>>
    /\ UNCHANGED deployVars
    /\ UNCHANGED labVars

\* running -> succeeded: the unit exited with status zero.
StageSucceeds(s) ==
    /\ status[s] = "running"
    /\ "succeeded" \in UnitOutcomes(steps[s].script)
    /\ status' = [status EXCEPT ![s] = "succeeded"]
    /\ outver' = [outver EXCEPT ![s] = runs]
    /\ cached' = [cached EXCEPT ![s] =
                     [ins |-> ResolvedInputs(steps, outver, s), out |-> runs]]
    /\ runStatus' = IF runStatus = "running" /\ AllDone(status') THEN "completed"
                    ELSE runStatus
    /\ UNCHANGED <<steps, order, runs>>
    /\ UNCHANGED deployVars
    /\ UNCHANGED labVars

StageFails_Retry(s) ==
    /\ status[s] = "running"
    /\ "failed" \in UnitOutcomes(steps[s].script)
    /\ status' = [status EXCEPT ![s] = "pending"]
    /\ runStatus' = "failed"
    /\ UNCHANGED <<steps, order, outver, cached, runs>>
    /\ UNCHANGED deployVars
    /\ UNCHANGED labVars

\* running -> failed: the unit failed; the Run is marked failed.
StageFails(s) ==
    /\ status[s] = "running"
    /\ "failed" \in UnitOutcomes(steps[s].script)
    /\ status' = [status EXCEPT ![s] = "failed"]
    /\ runStatus' = "failed"
    /\ UNCHANGED <<steps, order, outver, cached, runs>>
    /\ UNCHANGED deployVars
    /\ UNCHANGED labVars

NextPipe ==
    \/ SubmitPipeline
    \/ \E s \in Stages : StartStage(s)
    \/ \E s \in Stages : ReuseStage(s)
    \/ \E s \in Stages : StageSucceeds(s)
    \/ \E s \in Stages : StageFails(s)

\* A graph that differs from g by one more declared input of one stage.
AddInput(g, s, d) == [g EXCEPT ![s].inputs = @ \cup {d}]

\* The declared graph and its one-input variations, cyclic ones among them.
GraphVariants == {AddInput(PipelineSteps, s, d) : s \in Stages, d \in DataRefs}

\* ------------------------------------------------ key vault sidecar (az)

PlaceholderText == "Unable to list secrets in key vault"

\* What `az keyvault secret list` prints when it succeeds: the vault's
\* secrets at that time.
Listings == {"secrets " \o ToString(l) : l \in 1..MaxListings}

\* sleep 4 of the two start-up loops; sleep 3600 of the poll loop.
RetryInterval == 4
PollInterval == 3600

InPollLoop == ppc \in {"list", "listing", "sleep"}

InitPoller ==
    /\ ppc = "echo"
    /\ index_html = "absent"
    /\ sleepFor = 0
    /\ lastPoll = "none"
    /\ fileBefore = "absent"
    /\ served = "none"
    /\ authed = {}

\* echo Unable to list secrets in key vault > /data/index.html
WritePlaceholder ==
    /\ ppc = "echo"
    /\ index_html' = PlaceholderText
    /\ ppc' = "probe"
    /\ UNCHANGED <<sleepFor, lastPoll, fileBefore>>
    /\ UNCHANGED authed
    /\ UNCHANGED <<served, deployVars, pipeVars, scoreVars, evalVars, prepVars, hdVars, dsVars, hostVars>>

\* while ! curl --max-time 5 ... ; do sleep 4; done
ProbeToken ==
    /\ ppc = "probe"
    /\ \/ /\ ppc' = "login"
          /\ authed' = authed \cup {"token"}
          /\ UNCHANGED sleepFor
       \/ /\ ppc' = "probe_sleep"
          /\ sleepFor' = RetryInterval
          /\ UNCHANGED authed
    /\ UNCHANGED <<index_html, lastPoll, fileBefore>>
    /\ UNCHANGED <<served, deployVars, pipeVars, scoreVars, evalVars, prepVars, hdVars, dsVars, hostVars>>

Login_FailureIgnored ==
    /\ ppc = "login"
    /\ \/ /\ ppc' = "list"
          /\ authed' = authed \cup {"login"}
       \/ /\ ppc' = "list"
          /\ UNCHANGED authed
    /\ UNCHANGED <<index_html, sleepFor, lastPoll, fileBefore>>
    /\ UNCHANGED <<served, deployVars, pipeVars, scoreVars, evalVars, prepVars, hdVars, dsVars, hostVars>>

\* while ! az login --identity; do sleep 4; done
Login ==
    /\ ppc = "login"
    /\ \/ /\ ppc' = "list"
          /\ authed' = authed \cup {"login"}
          /\ UNCHANGED sleepFor
       \/ /\ ppc' = "login_sleep"
          /\ sleepFor' = RetryInterval
          /\ UNCHANGED authed
    /\ UNCHANGED <<index_html, lastPoll, fileBefore>>
    /\ UNCHANGED <<served, deployVars, pipeVars, scoreVars, evalVars, prepVars, hdVars, dsVars, hostVars>>

\* `az keyvault secret list ... > /data/index.html` begins: the shell opens
\* the redirection target, truncating it, before the command runs.
ListBegin ==
    /\ ppc = "list"
    /\ fileBefore' = index_html
    /\ index_html' = ""
    /\ ppc' = "listing"
    /\ UNCHANGED <<sleepFor, lastPoll>>
    /\ UNCHANGED authed
    /\ UNCHANGED <<served, deployVars, pipeVars, scoreVars, evalVars, prepVars, hdVars, dsVars, hostVars>>

\* The command succeeds: its standard output, the listing, is the file.
ListSucceeds ==
    /\ ppc = "listing"
    /\ \E l \in Listings : index_html' = l
    /\ lastPoll' = "ok"
    /\ ppc' = "sleep"
    /\ sleepFor' = PollInterval
    /\ UNCHANGED fileBefore
    /\ UNCHANGED authed
    /\ UNCHANGED <<served, deployVars, pipeVars, scoreVars, evalVars, prepVars, hdVars, dsVars, hostVars>>

ListFails_ExitsLoop ==
    /\ ppc = "listing"
    /\ lastPoll' = "failed"
    /\ ppc' = "exited"
    /\ UNCHANGED <<index_html, sleepFor, fileBefore>>
    /\ UNCHANGED authed
    /\ UNCHANGED <<served, deployVars, pipeVars, scoreVars, evalVars, prepVars, hdVars, dsVars, hostVars>>

\* The command fails: it prints its error on standard error and nothing on
\* standard output; the script has no `set -e` and goes on to the sleep.
ListFails ==
    /\ ppc = "listing"
    /\ lastPoll' = "failed"
    /\ ppc' = "sleep"
    /\ sleepFor' = PollInterval
    /\ UNCHANGED <<index_html, fileBefore>>
    /\ UNCHANGED authed
    /\ UNCHANGED <<served, deployVars, pipeVars, scoreVars, evalVars, prepVars, hdVars, dsVars, hostVars>>

\* A sleep ends and its loop goes round.
SleepEnds ==
    /\ ppc \in {"probe_sleep", "login_sleep", "sleep"}
    /\ ppc' = CASE ppc = "probe_sleep" -> "probe"
                [] ppc = "login_sleep" -> "login"
                [] ppc = "sleep" -> "list"
    /\ sleepFor' = 0
    /\ UNCHANGED <<index_html, lastPoll, fileBefore>>
    /\ UNCHANGED authed
    /\ UNCHANGED <<served, deployVars, pipeVars, scoreVars, evalVars, prepVars, hdVars, dsVars, hostVars>>

\* The nginx container answers a request with the shared file as it is now.
ServeIndex ==
    /\ served' = IF index_html = "absent" THEN "404" ELSE index_html
    /\ UNCHANGED <<ppc, index_html, sleepFor, lastPoll, fileBefore>>
    /\ UNCHANGED authed
    /\ UNCHANGED <<deployVars, pipeVars, scoreVars, evalVars, prepVars, hdVars, dsVars, hostVars>>

\* A step of the az container's script.
ScriptStep ==
    \/ WritePlaceholder
    \/ ProbeToken
    \/ Login
    \/ ListBegin
    \/ ListSucceeds
    \/ ListFails
    \/ SleepEnds

NextPoller ==
    \/ ScriptStep
    \/ ServeIndex

\* ------------------------------------------------------------- score.py

\* Request bodies: a JSON object with one feature vector under "data", text
\* that is not JSON, and a JSON object without "data".
Vectors == 0..MaxVector

RequestBodies ==
    {[kind |-> "vector", data |-> x] : x \in Vectors}
        \cup {[kind |-> "malformed", data |-> 0], [kind |-> "no_data", data |-> 0]}

\* model.predict([data]) of the classifier stored in model.pt number m: one
\* of the three iris classes.
Predict(m, x) == (m + x) % 3

Returned(labels) == [status |-> "returned", labels |-> labels, exception |-> ""]

Raised(exc) == [status |-> "raised", labels |-> <<>>, exception |-> exc]

run_ModelReloaded(m, raw_data) ==
    IF raw_data.kind = "malformed" THEN Raised("JSONDecodeError")
    ELSE IF raw_data.kind = "no_data" THEN Raised("KeyError")
    ELSE IF m = 0 THEN Raised("NameError")
    ELSE Returned(<<Predict((m % MaxModels) + 1, raw_data.data)>>)

\* run(raw_data): json.loads, ['data'], model.predict, tolist. Nothing is
\* caught: an exception leaves run.
run(m, raw_data) ==
    IF raw_data.kind = "malformed" THEN Raised("JSONDecodeError")
    ELSE IF raw_data.kind = "no_data" THEN Raised("KeyError")
    ELSE IF m = 0 THEN Raised("NameError")
    ELSE Returned(<<Predict(m, raw_data.data)>>)

InitScore ==
    /\ loaded_model = 0
    /\ answers = <<>>

\* init(): the registered model is unpickled into the global `model`.
ScoreInit ==
    /\ loaded_model = 0
    /\ \E m \in 1..MaxModels : loaded_model' = m
    /\ UNCHANGED answers
    /\ UNCHANGED <<deployVars, pipeVars, pollVars, evalVars, prepVars, hdVars, dsVars, hostVars>>

\* One request is handled by run.
ScoreRun ==
    /\ Len(answers) < MaxRequests
    /\ \E raw_data \in RequestBodies :
          answers' = Append(answers, [req |-> raw_data, model |-> loaded_model,
                                      resp |-> run(loaded_model, raw_data)])
    /\ UNCHANGED loaded_model
    /\ UNCHANGED <<deployVars, pipeVars, pollVars, evalVars, prepVars, hdVars, dsVars, hostVars>>

NextScore ==
    \/ ScoreInit
    \/ ScoreRun

\* ---------------------------------------------------------- evaluate.py

\* The iris classes.
Classes == 0..2

\* The names evaluate.py imports.
evaluate_imports ==
    {"classification_report", "confusion_matrix", "accuracy_score", "SVC",
     "pickle", "argparse"}

RECURSIVE CountTrue(_)
\* The sum of a sequence of booleans, True counting 1.
CountTrue(score) ==
    IF score = <<>> THEN 0
    ELSE (IF Head(score) THEN 1 ELSE 0) + CountTrue(Tail(score))

NoFraction == [num |-> 0, den |-> 0]

accuracy_score_Unnormalized(y_true, y_pred) ==
    [num |-> CountTrue([i \in 1..Len(y_true) |-> y_true[i] = y_pred[i]]),
     den |-> 1]

\* sklearn's accuracy_score(y_true, y_pred): the average of the element-wise
\* comparison y_true == y_pred, kept as the fraction num/den.
accuracy_score(y_true, y_pred) ==
    [num |-> CountTrue([i \in 1..Len(y_true) |-> y_true[i] = y_pred[i]]),
     den |-> Len(y_true)]

InitEvaluate ==
    /\ epc = "idle"
    /\ loaded_validy = <<>>
    /\ predictions = <<>>
    /\ eval_accuracy = NoFraction
    /\ accuracy_file = NoFraction
    /\ eval_error = ""

\* The model and the test split are unpickled and the model predicts a label
\* for every test record.
EvalLoadAndPredict ==
    /\ epc = "idle"
    /\ \E n \in 1..MaxTest :
          /\ loaded_validy' \in [1..n -> Classes]
          /\ predictions' \in [1..n -> Classes]
    /\ epc' = "predicted"
    /\ UNCHANGED <<eval_accuracy, accuracy_file, eval_error>>
    /\ UNCHANGED <<deployVars, pipeVars, pollVars, scoreVars, prepVars, hdVars, dsVars, hostVars>>

\* accuracy = accuracy_score(loaded_validy, predictions)
EvalAccuracy ==
    /\ epc = "predicted"
    /\ eval_accuracy' = accuracy_score(loaded_validy, predictions)
    /\ epc' = "scored"
    /\ UNCHANGED <<loaded_validy, predictions, accuracy_file, eval_error>>
    /\ UNCHANGED <<deployVars, pipeVars, pollVars, scoreVars, prepVars, hdVars, dsVars, hostVars>>

\* if not os.path.exists(accuracy_dir): os.makedirs(accuracy_dir), then the
\* accuracy is pickled into accuracy_file. The name os is looked up first.
EvalWriteAccuracy ==
    /\ epc = "scored"
    /\ IF "os" \in evaluate_imports
       THEN /\ accuracy_file' = eval_accuracy
            /\ epc' = "done"
            /\ UNCHANGED eval_error
       ELSE /\ eval_error' = "NameError"
            /\ epc' = "failed"
            /\ UNCHANGED accuracy_file
    /\ UNCHANGED <<loaded_validy, predictions, eval_accuracy>>
    /\ UNCHANGED <<deployVars, pipeVars, pollVars, scoreVars, prepVars, hdVars, dsVars, hostVars>>

NextEvaluate ==
    \/ EvalLoadAndPredict
    \/ EvalAccuracy
    \/ EvalWriteAccuracy

\* -------------------------------------------------------- preprocess.py

\* A record is a row of the csv file, identified by its number; its first
\* four columns are the features and its fifth the class.
Features(r) == r
Class(r) == r % 3

RECURSIVE Concat(_)
\* pd.concat of the frames read from the files, in the order of the glob.
Concat(fs) == IF fs = <<>> THEN <<>> ELSE Head(fs) \o Concat(Tail(fs))

\* The first n record numbers cut into consecutive files at the given lengths.
FilesOf(n, k) ==
    IF k = n THEN << [i \in 1..n |-> i] >>
    ELSE << [i \in 1..k |-> i], [i \in 1..(n - k) |-> k + i] >>

\* The directories preprocess.py is run on: without csv files, with an empty
\* csv file, with the records in one file or in two.
InputDirs ==
    {<<>>, << <<>> >>}
        \cup UNION {{FilesOf(n, k) : k \in 0..n} : n \in 1..MaxRecords}

test_size == 20      \* percent

random_state_None == Len(prep_history) + 1

random_state == 1

\* Next state of the generator behind RandomState: a linear congruential
\* generator standing in for numpy's Mersenne Twister. The split depends on
\* the generator only through its being a function of the seed.
rk_next(st) == (75 * st + 74) % 65537

RECURSIVE shuffle(_, _, _)
\* numpy's shuffle: for i from the last position down to the second, swap
\* position i with a position drawn from 1..i.
shuffle(a, i, st) ==
    IF i < 2 THEN a
    ELSE LET nxt == rk_next(st)
             j == (nxt % i) + 1
         IN  shuffle([a EXCEPT ![i] = a[j], ![j] = a[i]], i - 1, nxt)

\* RandomState(seed).permutation(n)
permutation(seed, n) == shuffle([k \in 1..n |-> k], n, seed)

\* ceil(test_size * n)
n_test_of(n) == (test_size * n + 99) \div 100

NoSplit == [X_train |-> <<>>, X_test |-> <<>>, Y_train |-> <<>>, Y_test |-> <<>>]

\* sklearn's train_test_split(X, y, test_size, random_state): the first n_test
\* positions of the permutation index the test rows, the following n_train
\* positions the train rows.
train_test_split(arr, seed) ==
    LET n == Len(arr)
        n_test == n_test_of(n)
        n_train == n - n_test
        perm == permutation(seed, n)
        train == [k \in 1..n_train |-> arr[perm[n_test + k]]]
        test == [k \in 1..n_test |-> arr[perm[k]]]
    IN  [X_train |-> [k \in 1..n_train |-> Features(train[k])],
         X_test  |-> [k \in 1..n_test |-> Features(test[k])],
         Y_train |-> [k \in 1..n_train |-> Class(train[k])],
         Y_test  |-> [k \in 1..n_test |-> Class(test[k])]]

\* What an execution leaves behind when it ends.
Finished(outcome, exc, ds, fl) ==
    [input |-> all_files, outcome |-> outcome, exception |-> exc,
     dirs |-> ds, files |-> fl]

InitPreprocess ==
    /\ prc = "idle"
    /\ all_files = <<>>
    /\ dataset = <<>>
    /\ split = NoSplit
    /\ dirs = {}
    /\ files = {}
    /\ prep_error = ""
    /\ prep_history = <<>>

\* The script is started on an input directory; train_dir and test_dir are
\* the output locations of this execution and do not exist yet.
PrepStart ==
    /\ prc \in {"idle", "done", "failed"}
    /\ Len(prep_history) < MaxPreps
    /\ all_files' \in InputDirs
    /\ prc' = "read"
    /\ dataset' = <<>>
    /\ split' = NoSplit
    /\ dirs' = {}
    /\ files' = {}
    /\ prep_error' = ""
    /\ UNCHANGED prep_history
    /\ UNCHANGED <<deployVars, pipeVars, pollVars, scoreVars, evalVars, hdVars, dsVars, hostVars>>

PrepFails(exc) ==
    /\ prc' = "failed"
    /\ prep_error' = exc
    /\ prep_history' = Append(prep_history, Finished("failed", exc, dirs, files))

\* The exceptions pandas raises when there is nothing to read: pd.concat of
\* no frames raises ValueError, pd.read_csv of an empty file EmptyDataError.
FormatError == {"ValueError", "EmptyDataError"}

PrepRead_DirsFirst ==
    /\ prc = "read"
    /\ dirs' = {"train_dir", "test_dir"}
    /\ IF all_files = <<>>
       THEN /\ prc' = "failed"
            /\ prep_error' = "ValueError"
            /\ prep_history' = Append(prep_history,
                   Finished("failed", "ValueError", dirs', files))
            /\ UNCHANGED dataset
       ELSE IF \E i \in 1..Len(all_files) : all_files[i] = <<>>
       THEN /\ prc' = "failed"
            /\ prep_error' = "EmptyDataError"
            /\ prep_history' = Append(prep_history,
                   Finished("failed", "EmptyDataError", dirs', files))
            /\ UNCHANGED dataset
       ELSE /\ dataset' = Concat(all_files)
            /\ prc' = "split"
            /\ UNCHANGED <<prep_error, prep_history>>
    /\ UNCHANGED <<all_files, split, files>>
    /\ UNCHANGED <<deployVars, pipeVars, pollVars, scoreVars, evalVars, hdVars, dsVars, hostVars>>

\* all_files = glob.glob(...); dataset = pd.concat(pd.read_csv(f) for f in
\* all_files)
PrepRead ==
    /\ prc = "read"
    /\ IF all_files = <<>>
       THEN /\ PrepFails("ValueError")
            /\ UNCHANGED dataset
       ELSE IF \E i \in 1..Len(all_files) : all_files[i] = <<>>
       THEN /\ PrepFails("EmptyDataError")
            /\ UNCHANGED dataset
       ELSE /\ dataset' = Concat(all_files)
            /\ prc' = "split"
            /\ UNCHANGED <<prep_error, prep_history>>
    /\ UNCHANGED <<all_files, split, dirs, files>>
    /\ UNCHANGED <<deployVars, pipeVars, pollVars, scoreVars, evalVars, hdVars, dsVars, hostVars>>

\* X_train, X_test, Y_train, Y_test = train_test_split(X, y, test_size=0.20,
\* random_state=1); a split whose train set would be empty raises ValueError.
PrepSplit ==
    /\ prc = "split"
    /\ IF Len(dataset) - n_test_of(Len(dataset)) = 0
       THEN /\ PrepFails("ValueError")
            /\ UNCHANGED split
       ELSE /\ split' = train_test_split(dataset, random_state)
            /\ prc' = "mkdirs"
            /\ UNCHANGED <<prep_error, prep_history>>
    /\ UNCHANGED <<all_files, dataset, dirs, files>>
    /\ UNCHANGED <<deployVars, pipeVars, pollVars, scoreVars, evalVars, hdVars, dsVars, hostVars>>

\* os.makedirs(train_dir); os.makedirs(test_dir)
PrepMakeDirs ==
    /\ prc = "mkdirs"
    /\ dirs' = dirs \cup {"train_dir", "test_dir"}
    /\ prc' = "write"
    /\ UNCHANGED <<all_files, dataset, split, files, prep_error, prep_history>>
    /\ UNCHANGED <<deployVars, pipeVars, pollVars, scoreVars, evalVars, hdVars, dsVars, hostVars>>

\* The four pickle files.
OutputFiles ==
    {[dir |-> "test_dir", name |-> "X_test.sav", content |-> split.X_test],
     [dir |-> "test_dir", name |-> "Y_test.sav", content |-> split.Y_test],
     [dir |-> "train_dir", name |-> "X_train.sav", content |-> split.X_train],
     [dir |-> "train_dir", name |-> "Y_train.sav", content |-> split.Y_train]}

\* pickle.dump of X_test, Y_test, X_train, Y_train
PrepWrite ==
    /\ prc = "write"
    /\ files' = OutputFiles
    /\ prc' = "done"
    /\ prep_history' = Append(prep_history, Finished("done", "", dirs, files'))
    /\ UNCHANGED <<all_files, dataset, split, dirs, prep_error>>
    /\ UNCHANGED <<deployVars, pipeVars, pollVars, scoreVars, evalVars, hdVars, dsVars, hostVars>>

NextPreprocess ==
    \/ PrepStart
    \/ PrepRead
    \/ PrepSplit
    \/ PrepMakeDirs
    \/ PrepWrite

\* ------------------------------------------------------ hyperdrive notebook

InitHyperdrive ==
    /\ hd_status = "NotStarted"
    /\ hd_started = 0
    /\ hd_running = 0
    /\ hd_completed = [v \in 1..MaxRmse |-> 0]
    /\ hd_failed = 0
    /\ nb_pc = "configured"
    /\ best_run = 0
    /\ nb_error = ""

max_total_runs == 20

max_concurrent_runs_Unlimited == max_total_runs

max_concurrent_runs == 4

primary_metric_goal_Maximize == "MAXIMIZE"

primary_metric_goal == "MINIMIZE"

\* The rmse values logged by completed child runs.
LoggedRmse == {v \in 1..MaxRmse : hd_completed[v] > 0}

\* run.get_best_run_by_primary_metric(): the completed child run with the best
\* value of the primary metric, None (0) when there is none.
get_best_run_by_primary_metric ==
    IF LoggedRmse = {} THEN 0
    ELSE IF primary_metric_goal = "MINIMIZE"
    THEN CHOOSE v \in LoggedRmse : \A w \in LoggedRmse : v <= w
    ELSE CHOOSE v \in LoggedRmse : \A w \in LoggedRmse : v >= w

\* run = experiment.submit(config=hyperdrive)
HDSubmit ==
    /\ nb_pc = "configured"
    /\ hd_status = "NotStarted"
    /\ hd_status' = "Running"
    /\ nb_pc' = "waiting"
    /\ UNCHANGED <<hd_started, hd_running, hd_completed, hd_failed, best_run, nb_error>>
    /\ UNCHANGED <<deployVars, pipeVars, pollVars, scoreVars, evalVars, prepVars, dsVars, hostVars>>

\* The service starts a child run with freshly sampled parameters.
HDStartChild ==
    /\ hd_status = "Running"
    /\ hd_started < max_total_runs
    /\ hd_running < max_concurrent_runs
    /\ hd_started' = hd_started + 1
    /\ hd_running' = hd_running + 1
    /\ UNCHANGED <<hd_status, hd_completed, hd_failed, nb_pc, best_run, nb_error>>
    /\ UNCHANGED <<deployVars, pipeVars, pollVars, scoreVars, evalVars, prepVars, dsVars, hostVars>>

\* A child run completes, having logged its rmse.
HDChildCompletes ==
    /\ hd_status = "Running"
    /\ hd_running > 0
    /\ \E v \in 1..MaxRmse : hd_completed' = [hd_completed EXCEPT ![v] = @ + 1]
    /\ hd_running' = hd_running - 1
    /\ UNCHANGED <<hd_status, hd_started, hd_failed, nb_pc, best_run, nb_error>>
    /\ UNCHANGED <<deployVars, pipeVars, pollVars, scoreVars, evalVars, prepVars, dsVars, hostVars>>

\* A child run fails.
HDChildFails ==
    /\ hd_status = "Running"
    /\ hd_running > 0
    /\ hd_failed' = hd_failed + 1
    /\ hd_running' = hd_running - 1
    /\ UNCHANGED <<hd_status, hd_started, hd_completed, nb_pc, best_run, nb_error>>
    /\ UNCHANGED <<deployVars, pipeVars, pollVars, scoreVars, evalVars, prepVars, dsVars, hostVars>>

\* The experiment ends when the budget is spent and no child run is running.
HDFinish ==
    /\ hd_status = "Running"
    /\ hd_started = max_total_runs
    /\ hd_running = 0
    /\ hd_status' = "Completed"
    /\ UNCHANGED <<hd_started, hd_running, hd_completed, hd_failed, nb_pc, best_run, nb_error>>
    /\ UNCHANGED <<deployVars, pipeVars, pollVars, scoreVars, evalVars, prepVars, dsVars, hostVars>>

\* run.wait_for_completion() returns.
NBWaitReturns ==
    /\ nb_pc = "waiting"
    /\ hd_status = "Completed"
    /\ nb_pc' = "get_best"
    /\ UNCHANGED <<hd_status, hd_started, hd_running, hd_completed, hd_failed, best_run, nb_error>>
    /\ UNCHANGED <<deployVars, pipeVars, pollVars, scoreVars, evalVars, prepVars, dsVars, hostVars>>

\* best_run = run.get_best_run_by_primary_metric()
\* if best_run is None: raise Exception("No best run was found")
NBGetBest ==
    /\ nb_pc = "get_best"
    /\ best_run' = get_best_run_by_primary_metric
    /\ IF best_run' = 0
       THEN /\ nb_pc' = "raised"
            /\ nb_error' = "No best run was found"
       ELSE /\ nb_pc' = "has_best"
            /\ UNCHANGED nb_error
    /\ UNCHANGED <<hd_status, hd_started, hd_running, hd_completed, hd_failed>>
    /\ UNCHANGED <<deployVars, pipeVars, pollVars, scoreVars, evalVars, prepVars, dsVars, hostVars>>

HDService == HDStartChild \/ HDChildCompletes \/ HDChildFails \/ HDFinish

NextHyperdrive ==
    \/ HDSubmit
    \/ HDService
    \/ NBWaitReturns
    \/ NBGetBest


\* ------------------------------- hyperdrive notebook: dataset registration

\* if 'diabetes' not in ws.datasets
DatasetMissing_Always == TRUE

DatasetMissing == ds_versions = 0

InitDataset ==
    /\ cpc = "idle"
    /\ ds_versions = 0
    /\ cell_runs = 0
    /\ cell_prints = <<>>

\* The cell is run: the guard is evaluated, and in the else branch
\* 'Dataset already registered.' is printed.
CellGuard ==
    /\ cpc \in {"idle", "finished", "raised"}
    /\ cell_runs < MaxCellRuns
    /\ cell_runs' = cell_runs + 1
    /\ IF DatasetMissing
       THEN /\ cpc' = "get"
            /\ UNCHANGED cell_prints
       ELSE /\ cpc' = "finished"
            /\ cell_prints' = Append(cell_prints, "Dataset already registered.")
    /\ UNCHANGED ds_versions
    /\ UNCHANGED <<deployVars, pipeVars, pollVars, scoreVars, evalVars, prepVars, hdVars, hostVars>>

\* tab_data_set = Diabetes.get_tabular_dataset(), outside the try: an
\* exception here ends the cell.
CellGetDataset ==
    /\ cpc = "get"
    /\ cpc' \in {"try", "raised"}
    /\ UNCHANGED <<ds_versions, cell_runs, cell_prints>>
    /\ UNCHANGED <<deployVars, pipeVars, pollVars, scoreVars, evalVars, prepVars, hdVars, hostVars>>

\* try: print("Registering Dataset"); tab_data_set.register(...,
\* create_new_version=True); print("Dataset is registered")
\* except Exception as ex: print(ex)
CellRegister ==
    /\ cpc = "try"
    /\ \/ /\ ds_versions' = ds_versions + 1
          /\ cell_prints' = cell_prints \o <<"Registering Dataset", "Dataset is registered">>
       \/ /\ UNCHANGED ds_versions
          /\ cell_prints' = cell_prints \o <<"Registering Dataset", "ex">>
    /\ cpc' = "finished"
    /\ UNCHANGED cell_runs
    /\ UNCHANGED <<deployVars, pipeVars, pollVars, scoreVars, evalVars, prepVars, hdVars, hostVars>>

NextDataset ==
    \/ CellGuard
    \/ CellGetDataset
    \/ CellRegister

\* --------------------------------------------------------- init-lab-vm.ps1

\* The values of the Add-content commands, in the order of the script (`t is
\* a tab).
HostEntries ==
    <<"192.168.1.11 \t DCA.root.contoso.com",
      "192.168.1.12 \t DCB.root.contoso.com",
      "192.168.1.21 \t Member01.root.contoso.com",
      "192.168.1.22 \t Member02.root.contoso.com",
      "192.168.1.23 \t Member03.root.contoso.com",
      "192.168.1.24 \t Member04.root.contoso.com",
      "192.168.1.32 \t Client02.root.contoso.com",
      "192.168.1.100 \t FABDC.fabrikam.com",
      "192.168.1.101 \t FABMember.fabrikam.com",
      "192.168.1.102 \t FABClient.fabrikam.com">>

\* Position of the script after its last command.
ScriptEnd == Len(HostEntries) + 1

\* Hosts files the script may find: empty, the stock comment and localhost
\* lines, and a file that already holds one of the entries. Every line ends
\* with a line terminator, as in the stock file and after every Add-content.
InitialHosts ==
    {<<>>,
     <<"# localhost name resolution">>,
     <<"# localhost name resolution", "127.0.0.1 localhost">>,
     <<"127.0.0.1 localhost", "192.168.1.12 \t DCB.root.contoso.com">>}

InitHosts ==
    /\ hpc = ScriptEnd
    /\ task = "Ready"
    /\ hosts = <<>>
    /\ hosts0 = <<>>
    /\ script_runs = 0

\* The script is started; its first execution finds the machine with one of
\* the hosts files and the task enabled or already disabled.
StartScript ==
    /\ hpc = ScriptEnd
    /\ script_runs < MaxScriptRuns
    /\ script_runs' = script_runs + 1
    /\ hpc' = 0
    /\ IF script_runs = 0
       THEN /\ hosts' \in InitialHosts
            /\ hosts0' = hosts'
            /\ task' \in {"Ready", "Disabled"}
       ELSE UNCHANGED <<task, hosts, hosts0>>
    /\ UNCHANGED <<deployVars, pipeVars, pollVars, scoreVars, evalVars, prepVars, hdVars, dsVars>>

\* Get-ScheduledTask -TaskName ServerManager | Disable-ScheduledTask
DisableTask ==
    /\ hpc = 0
    /\ task' = "Disabled"
    /\ hpc' = 1
    /\ UNCHANGED <<hosts, hosts0, script_runs>>
    /\ UNCHANGED <<deployVars, pipeVars, pollVars, scoreVars, evalVars, prepVars, hdVars, dsVars>>

AddContent_IfMissing ==
    /\ hpc \in 1..Len(HostEntries)
    /\ hosts' = IF \E i \in 1..Len(hosts) : hosts[i] = HostEntries[hpc]
                THEN hosts
                ELSE Append(hosts, HostEntries[hpc])
    /\ hpc' = hpc + 1
    /\ UNCHANGED <<task, hosts0, script_runs>>
    /\ UNCHANGED <<deployVars, pipeVars, pollVars, scoreVars, evalVars, prepVars, hdVars, dsVars>>

\* Add-content -path $HostFile -value "...": the value is appended to the
\* file as a new last line.
AddContent ==
    /\ hpc \in 1..Len(HostEntries)
    /\ hosts' = Append(hosts, HostEntries[hpc])
    /\ hpc' = hpc + 1
    /\ UNCHANGED <<task, hosts0, script_runs>>
    /\ UNCHANGED <<deployVars, pipeVars, pollVars, scoreVars, evalVars, prepVars, hdVars, dsVars>>

NextHosts ==
    \/ StartScript
    \/ DisableTask
    \/ AddContent

InitLab ==
    /\ InitPoller /\ InitScore /\ InitEvaluate /\ InitPreprocess /\ InitHyperdrive
    /\ InitDataset /\ InitHosts

InitGraphs ==
    /\ InitDeploy
    /\ InitLab
    /\ steps \in GraphVariants
    /\ runStatus = "none"
    /\ status = [s \in Stages |-> "pending"]
    /\ order = <<>>
    /\ outver = [s \in Stages |-> 0]
    /\ cached = [s \in Stages |-> NoExecution]
    /\ runs = 0

NextDeploy ==
    \/ StartDeploy
    \/ DeployGate
    \/ PublishDelete
    \/ DeployService
    \/ DeployServiceFails
    \/ LookupService
    \/ WriteScoringUri

Init == InitDeploy /\ InitPipe /\ InitLab

SpecDeploy == Init /\ [][NextDeploy]_vars

SpecPipeline == Init /\ [][NextPipe]_vars

SpecGraphs == InitGraphs /\ [][NextPipe]_vars

\* The shell runs the script's commands one after the other and each of them
\* returns, so the script always takes its next step.
SpecScore == Init /\ [][NextScore]_vars

SpecEvaluate == Init /\ [][NextEvaluate]_vars

SpecPreprocess == Init /\ [][NextPreprocess]_vars

SpecHyperdrive == Init /\ [][NextHyperdrive]_vars /\ WF_vars(HDService)

SpecDataset == Init /\ [][NextDataset]_vars

SpecHosts == Init /\ [][NextHosts]_vars

SpecPoller == Init /\ [][NextPoller]_vars /\ WF_vars(ScriptStep)

\* ------------------------------------------------- Deploy gate: properties

\* The gate of the current execution has been evaluated.
AfterGate == dpc \in {"publish", "deploy", "lookup", "write_uri", "done", "failed"}

\* A model was registered under the name when the execution started.
PrevExists == pre.registry # <<>>

PrevTags == LatestModel(pre.registry)

Happened(e) == \E i \in 1..Len(events) : events[i] = e

\* The execution registered exactly one new version carrying its own tags.
RegisteredNow ==
    /\ registry = Append(pre.registry, Tags(accuracy, test_dir))
    /\ Happened("register")

\* The endpoint under the name is the one serving the version registered now.
ServesNewModel == services = {[model |-> Len(pre.registry) + 1]}

\* C1: with a model already registered whose test_data tag equals the
\* test-data identity of the run, Deploy registers the new model if and only
\* if the new accuracy is strictly greater than the registered accuracy.
C1_AccuracyRule ==
    (AfterGate /\ PrevExists /\ PrevTags.test_data = test_dir)
        => (new_model <=> accuracy > PrevTags.accuracy)

\* C2: with a model already registered whose test_data tag differs from the
\* test-data identity of the run, Deploy registers the new model and takes
\* the publish branch whatever the two accuracies are; an execution that
\* completes has republished the endpoint with the new model.
C2_TestSetRule ==
    (AfterGate /\ PrevExists /\ PrevTags.test_data # test_dir)
        => /\ new_model
           /\ RegisteredNow
           /\ dpc # "lookup"
           /\ error # "service_lookup"
           /\ (dpc \in {"write_uri", "done"} => Happened("deploy") /\ ServesNewModel)

\* C2 witness: a completed execution on a changed test set with an accuracy
\* lower than the registered one.
C2_Witness ==
    /\ dpc = "done"
    /\ PrevExists
    /\ PrevTags.test_data # test_dir
    /\ accuracy < PrevTags.accuracy
    /\ ServesNewModel

\* C3: with no model registered under the name the lookup failure is taken as
\* 'does not exist yet': the model is registered with its accuracy and
\* test-data tags, the endpoint is published, and the lookup failure is not
\* what fails the stage.
C3_FirstRunRule ==
    (AfterGate /\ ~PrevExists)
        => /\ new_model
           /\ registry = <<Tags(accuracy, test_dir)>>
           /\ Happened("register")
           /\ dpc # "lookup"
           /\ (dpc = "failed" => error = "deploy")
           /\ (dpc \in {"write_uri", "done"} => services = {[model |-> 1]})

\* C3 witness: the first execution has completed and published version 1.
C3_Witness ==
    /\ dpc = "done"
    /\ ~PrevExists
    /\ registry = <<Tags(accuracy, test_dir)>>
    /\ services = {[model |-> 1]}

\* C4: when the gate decides not to register, the registered versions and
\* their tags and the published endpoint stay as they were when the execution
\* started (nothing deleted, nothing deployed); and the registry only ever
\* changes by the gate's registration, which appends one version.
C4_NoRegistrationFrame ==
    /\ (AfterGate /\ ~new_model)
          => /\ registry = pre.registry
             /\ services = pre.services
             /\ ~Happened("delete")
             /\ ~Happened("deploy")
    /\ (registry # pre.registry)
          => /\ new_model
             /\ RegisteredNow

\* C4 witness: an execution whose gate declined has completed.
C4_Witness ==
    /\ dpc = "done"
    /\ ~new_model
    /\ PrevExists
    /\ pre.services # {}

C6_OneEndpoint ==
    /\ Cardinality(services) <= 1
    /\ (dpc = "done" => Cardinality(services) = 1)

\* C6 witness: a later execution has replaced an existing endpoint and
\* completed.
C6_Witness ==
    /\ dpc = "done"
    /\ pre.services # {}
    /\ Happened("delete")
    /\ Cardinality(services) = 1
    /\ services # pre.services

Position(s) == CHOOSE i \in 1..Len(StageOrder) : StageOrder[i] = s

\* Every order of all the stages in which each stage comes after every
\* producer of its inputs.
TopoOrders(g) ==
    {o \in [1..Len(StageOrder) -> Stages] :
        /\ \A i, j \in 1..Len(StageOrder) : i # j => o[i] # o[j]
        /\ \A i \in 1..Len(StageOrder) :
              \A p \in Producers(g, o[i]) :
                 \E j \in 1..(i - 1) : o[j] = p}

\* C8: once a Stage Execution has failed the Run is marked failed and no
\* stage depending on it, directly or transitively, has left pending; in the
\* five-stage pipeline no stage listed after the failed one has been started.
C8_FailurePropagation ==
    \A k \in Stages :
        status[k] = "failed" =>
            /\ runStatus = "failed"
            /\ \A s \in Stages : k \in Upstream(steps, s) => status[s] = "pending"
            /\ \A s \in Stages : Position(s) > Position(k) => status[s] = "pending"

\* C8 witness: Train failed after Ingest and Preprocess finished; Evaluate and
\* Deploy are still pending.
C8_Witness ==
    /\ status["train"] = "failed"
    /\ Done(status, "ingest")
    /\ Done(status, "preprocess")
    /\ status["evaluate"] = "pending"
    /\ status["deploy"] = "pending"

\* C9: a stage has left pending only if every producer of its inputs has
\* succeeded or been reused; the stages of a Run are taken up in the order
\* Ingest, Preprocess, Train, Evaluate, Deploy, never two at a time; and that
\* order is the only one the declared inputs and outputs admit.
C9_TopologicalOrder ==
    /\ \A s \in Stages :
          status[s] # "pending" => \A p \in Producers(steps, s) : Done(status, p)
    /\ Len(order) <= Len(StageOrder)
    /\ \A i \in 1..Len(order) : order[i] = StageOrder[i]
    /\ Cardinality({s \in Stages : Ready(steps, status, s) \/ status[s] = "running"}) <= 1
    /\ TopoOrders(steps) = {StageOrder}

\* C9 witness: Evaluate is running after Ingest, Preprocess and Train were
\* taken up in that order, in a Run that reused an earlier output.
C9_Witness ==
    /\ order = <<"ingest", "preprocess", "train", "evaluate">>
    /\ status["evaluate"] = "running"
    /\ status["ingest"] = "reused"
    /\ status["train"] = "succeeded"

\* C10: a submitted graph whose data dependencies form a cycle (no order of
\* the stages respects them) is rejected, and none of its Stage Executions
\* has left pending.
C10_CycleRejected ==
    (runStatus # "none" /\ TopoOrders(steps) = {})
        => /\ runStatus = "rejected"
           /\ order = <<>>
           /\ \A s \in Stages : status[s] = "pending"

\* C10 witness: a graph in which Ingest consumes Evaluate's output has been
\* submitted and rejected.
C10_Witness ==
    /\ runStatus = "rejected"
    /\ "accuracy_dir" \in steps["ingest"].inputs
    /\ TopoOrders(steps) = {}
    /\ runs >= 1

\* ------------------------------------------------- sidecar: properties

\* C12: after a failed secret-list poll the served file holds exactly what it
\* held before the poll (the last listing, or the placeholder), until the
\* next successful poll.
C12_StaleOnFailure ==
    (InPollLoop /\ lastPoll = "failed" /\ ppc = "sleep")
        => index_html = fileBefore

\* C13: once in the poll loop the script never leaves it; every secret-list
\* attempt, failed or not, is followed by the 3600 s sleep, and after every
\* sleep, as after the login, another attempt is made.
C13_PollsForever ==
    /\ [][InPollLoop => InPollLoop']_vars
    /\ [](ppc = "sleep" => sleepFor = 3600)
    /\ [][ppc = "listing" /\ ppc' # "listing" => ppc' = "sleep"]_vars
    /\ (InPollLoop ~> (ppc = "listing"))
    /\ ((ppc = "sleep" /\ lastPoll = "failed") ~> (ppc = "listing"))

\* C13 witness: the script sleeps 3600 s after a failed attempt that followed
\* a successful one.
C13_Witness ==
    /\ ppc = "sleep"
    /\ lastPoll = "failed"
    /\ sleepFor = 3600
    /\ fileBefore \in Listings

\* ------------------------------------------------------ reuse: properties

\* The steps declared with allow_reuse=True.
ReuseSteps == {"ingest", "preprocess", "evaluate", "deploy"}

\* C11: a stage declared with allow_reuse that is taken up again with the
\* resolved inputs of an earlier successful execution goes from pending to
\* reused, its unit is not executed again, and the outputs it passes
\* downstream are those of that earlier execution.
C11_Reuse ==
    /\ [](\A s \in ReuseSteps :
            (/\ status[s] # "pending"
             /\ cached[s].out # 0
             /\ cached[s].out < runs
             /\ cached[s].ins = ResolvedInputs(steps, outver, s))
               => /\ status[s] = "reused"
                  /\ outver[s] = cached[s].out)
    /\ [](\A s \in Stages :
            status[s] = "reused"
               => /\ steps[s].allow_reuse
                  /\ outver[s] = cached[s].out
                  /\ outver[s] < runs)
    /\ [][\A s \in Stages :
            (status'[s] = "reused" /\ status[s] # "reused")
               => /\ status[s] = "pending"
                  /\ cached'[s] = cached[s]]_vars

\* C11 witness: in the second Run Ingest and Preprocess are reused and Train
\* runs on the train_dir the first Run computed.
C11_Witness ==
    /\ runs = 2
    /\ status["ingest"] = "reused"
    /\ status["preprocess"] = "reused"
    /\ outver["preprocess"] = 1
    /\ status["train"] = "running"
    /\ ResolvedInputs(steps, outver, "train")["preprocess"] = 1

\* ------------------------------------------------- score.py: properties

\* C14: after init a well-formed request with one feature vector is answered
\* with a single predicted label, the one the loaded model predicts whatever
\* was requested before; a malformed body is answered with a client error
\* inside the request.
C14_MalformedIsClientError ==
    \A i \in 1..Len(answers) :
        /\ (answers[i].req.kind = "vector" /\ answers[i].model # 0)
              => answers[i].resp =
                    Returned(<<Predict(loaded_model, answers[i].req.data)>>)
        /\ answers[i].req.kind = "malformed"
              => answers[i].resp.status = "client_error"

\* ----------------------------------------------- evaluate.py: properties

\* C15: given a loadable model and test split, evaluate.py ends successfully
\* with the computed accuracy written to accuracy_file.
C15_EvaluateCompletes ==
    (epc \in {"done", "failed"})
        => /\ epc = "done"
           /\ accuracy_file = eval_accuracy
           /\ accuracy_file # NoFraction

\* The number of positions at which prediction and label agree.
Matches == Cardinality({i \in 1..Len(loaded_validy) : predictions[i] = loaded_validy[i]})

\* C16: the accuracy is the number of positions where prediction equals label
\* over the number of test records: 1.0 when they agree everywhere, 0.0 when
\* they agree nowhere.
C16_AccuracyIsMatchFraction ==
    (epc \in {"scored", "done", "failed"})
        => /\ eval_accuracy.den = Len(loaded_validy)
           /\ eval_accuracy.num = Matches
           /\ (predictions = loaded_validy => eval_accuracy.num = eval_accuracy.den)
           /\ ((\A i \in 1..Len(loaded_validy) : predictions[i] # loaded_validy[i])
                 => eval_accuracy.num = 0)

\* C16 witness: the accuracy of three predictions of which exactly two are
\* right has been computed.
C16_Witness ==
    /\ epc = "scored"
    /\ Len(loaded_validy) = 3
    /\ Matches = 2
    /\ eval_accuracy = [num |-> 2, den |-> 3]

\* --------------------------------------------- preprocess.py: properties

\* The records of a finished execution's train and test features.
TrainOf(h) == CHOOSE f \in h.files : f.name = "X_train.sav"
TestOf(h) == CHOOSE f \in h.files : f.name = "X_test.sav"
Elems(q) == {q[i] : i \in 1..Len(q)}

C18_NoOutputOnFormatError ==
    /\ \A i \in 1..Len(prep_history) :
          Concat(prep_history[i].input) = <<>>
              => /\ prep_history[i].outcome = "failed"
                 /\ prep_history[i].exception \in FormatError
                 /\ prep_history[i].files = {}
                 /\ prep_history[i].dirs = {}
    /\ (prc = "failed" /\ Concat(all_files) = <<>>) => (dirs = {} /\ files = {})

\* C18 witness: an execution on a directory without csv files and one on a
\* directory with an empty csv file have both failed.
C18_Witness ==
    /\ prc = "failed"
    /\ Len(prep_history) = 2
    /\ prep_history[1].input = <<>>
    /\ prep_history[1].exception = "ValueError"
    /\ prep_history[2].input = << <<>> >>
    /\ prep_history[2].exception = "EmptyDataError"

\* ------------------------------------------------- hyperdrive: properties

RECURSIVE CompletedRuns(_)
\* The number of completed child runs that logged an rmse in 1..v.
CompletedRuns(v) == IF v = 0 THEN 0 ELSE hd_completed[v] + CompletedRuns(v - 1)

\* C19: at most 4 child runs run at a time and at most 20 are ever started;
\* the experiment completes only with the budget spent and every started run
\* ended, and once that is the case it does complete.
C19_RunBudget ==
    /\ [](hd_running <= 4 /\ hd_started <= 20)
    /\ [](hd_running + hd_failed + CompletedRuns(MaxRmse) = hd_started)
    /\ [](hd_status = "Completed" => hd_started = 20 /\ hd_running = 0)
    /\ (hd_started = 20 /\ hd_running = 0) ~> (hd_status = "Completed")
    /\ (hd_status = "Running") ~> (hd_status = "Completed")

\* C19 witness: four child runs are running and twenty have been started.
C19_Witness ==
    /\ hd_status = "Running"
    /\ hd_running = 4
    /\ hd_started = 20

\* C20: the run returned as best has logged an rmse no greater than that of
\* any completed child run; when no child run completed the notebook raises.
C20_BestRunMinimizesRmse ==
    /\ nb_pc = "has_best"
          => /\ best_run \in LoggedRmse
             /\ \A v \in LoggedRmse : best_run <= v
    /\ (nb_pc \in {"has_best", "raised"} /\ LoggedRmse = {})
          => /\ nb_pc = "raised"
             /\ nb_error = "No best run was found"
    /\ nb_pc = "raised" => LoggedRmse = {}

\* C20 witness: completed child runs logged different rmse values and the
\* lowest was returned.
C20_Witness ==
    /\ nb_pc = "has_best"
    /\ LoggedRmse = 1..MaxRmse
    /\ hd_failed > 0
    /\ best_run = 1

\* C20 witness: every child run failed and the notebook raised.
C20_WitnessNone ==
    /\ nb_pc = "raised"
    /\ hd_failed = max_total_runs

\* ------------------------------------- deploy.py and its declared outputs

\* C21: a Deploy execution that exits with status zero has written every
\* Data Reference deploy_step declares as an output (output_dir).
C21_DeployOutputMaterialized ==
    dpc = "done" => deploy_step.outputs \subseteq written

\* C22: a Deploy execution writes only into the Data References deploy_step
\* declares as outputs, never into one it receives as an input; model_dir,
\* the output of train_step, is not written by it.
C22_SingleWriter ==
    /\ written \cap deploy_step.inputs = {}
    /\ "model_dir" \in train_step.outputs => "model_dir" \notin written

\* C23: a Deploy execution never fails on the lookup of the existing scoring
\* endpoint, whether the gate registered a new model or not.
C23_LookupFailureSuppressed ==
    dpc = "failed" => error # "service_lookup"

\* ------------------------------------------ pipeline Runs: more properties

\* The transitions of a Stage Execution.
Transitions ==
    {<<"pending", "running">>, <<"running", "succeeded">>,
     <<"running", "failed">>, <<"pending", "reused">>}

\* C24: within a Run a Stage Execution only moves pending to running, running
\* to succeeded, running to failed or pending to reused, so succeeded, failed
\* and reused are terminal; a stage is started or reused at most once per Run,
\* and a new Run begins only when no stage is running.
C24_StateMachine ==
    /\ [][\A s \in Stages :
            status'[s] # status[s]
               => IF runs' = runs
                  THEN <<status[s], status'[s]>> \in Transitions
                  ELSE /\ status[s] # "running"
                       /\ status'[s] = "pending"]_vars
    /\ [](\A i, j \in 1..Len(order) : i # j => order[i] # order[j])
    /\ [](\A s \in Stages :
            status[s] \in {"pending", "running", "succeeded", "failed", "reused"})

\* C24 witness: in the second Run Ingest was reused, Train succeeded and
\* Evaluate failed.
C24_Witness ==
    /\ runs = 2
    /\ status["ingest"] = "reused"
    /\ status["train"] = "succeeded"
    /\ status["evaluate"] = "failed"
    /\ status["deploy"] = "pending"

\* C25: each of the six PipelineData objects is listed in the outputs of
\* exactly one of the five submitted steps.
C25_OneProducer ==
    /\ Cardinality(DataRefs) = 6
    /\ Cardinality(Stages) = 5
    /\ \A d \in DataRefs : Cardinality({s \in Stages : d \in steps[s].outputs}) = 1

\* C25 witness: the declared pipeline has been submitted and Train, the
\* producer of model_dir, is running.
C25_Witness ==
    /\ runStatus = "running"
    /\ steps = PipelineSteps
    /\ status["train"] = "running"
    /\ {s \in Stages : "model_dir" \in steps[s].outputs} = {"train"}

\* C28: Train is declared with allow_reuse=False while Ingest and Preprocess
\* are declared with allow_reuse=True; Train is never marked reused, it leaves
\* pending only to running, also when an earlier Run executed it successfully
\* on the same resolved inputs, whereas Ingest and Preprocess are reusable
\* whenever they have such an earlier execution.
C28_TrainNeverReused ==
    /\ [](~steps["train"].allow_reuse)
    /\ [](steps["ingest"].allow_reuse /\ steps["preprocess"].allow_reuse)
    /\ [](status["train"] # "reused")
    /\ [](~Reusable(steps, outver, cached, "train"))
    /\ [][(status["train"] = "pending" /\ status'["train"] # "pending")
             => status'["train"] = "running"]_vars
    /\ [](\A s \in {"ingest", "preprocess"} :
            (cached[s].out # 0 /\ cached[s].ins = ResolvedInputs(steps, outver, s))
               => Reusable(steps, outver, cached, s))

\* C28 witness: Train succeeded in the first Run; in the second Run, on the
\* same resolved inputs, it is running again while Preprocess was reused.
C28_Witness ==
    /\ runs = 2
    /\ status["preprocess"] = "reused"
    /\ cached["train"].out = 1
    /\ cached["train"].ins = ResolvedInputs(steps, outver, "train")
    /\ status["train"] = "running"

\* ---------------------------------------- key vault sidecar: start-up order

\* C26: the script begins by writing the placeholder; the login is attempted
\* only after the identity-token probe has succeeded and the secret-list
\* command only after the login has succeeded too, a failed probe or login
\* being followed by a 4 s sleep and another attempt; until the first
\* secret-list attempt begins the served file holds the placeholder.
C26_StartupOrder ==
    /\ [](ppc = "echo" => (index_html = "absent" /\ authed = {} /\ lastPoll = "none"))
    /\ [][(ppc = "echo" /\ ppc' # "echo")
             => (ppc' = "probe" /\ index_html' = PlaceholderText)]_vars
    /\ [](ppc \in {"login", "login_sleep"} => authed = {"token"})
    /\ [](InPollLoop => authed = {"token", "login"})
    /\ [](lastPoll # "none" => authed = {"token", "login"})
    /\ [](ppc \in {"probe_sleep", "login_sleep"} => sleepFor = 4)
    /\ [][(ppc = "probe" /\ ppc' # "probe")
             => (ppc' = "probe_sleep" \/ "token" \in authed')]_vars
    /\ [][(ppc = "login" /\ ppc' # "login")
             => (ppc' = "login_sleep" \/ "login" \in authed')]_vars
    /\ [][(ppc = "probe_sleep" /\ ppc' # ppc) => ppc' = "probe"]_vars
    /\ [][(ppc = "login_sleep" /\ ppc' # ppc) => ppc' = "login"]_vars
    /\ []((lastPoll = "none" /\ ppc \notin {"echo", "listing"})
             => index_html = PlaceholderText)

\* C26 witness: the probe and the login have succeeded, the first secret-list
\* attempt is about to begin, and the file, which nginx has served, still
\* holds the placeholder.
C26_Witness ==
    /\ ppc = "list"
    /\ lastPoll = "none"
    /\ authed = {"token", "login"}
    /\ index_html = PlaceholderText
    /\ served = PlaceholderText

\* --------------------------------------------- score.py: the loaded model

\* C27: init loads the model once and no request changes it: every
\* prediction returned is that of the model init loaded, so two requests with
\* the same body handled after init get the same answer whatever was handled
\* between them; a request handled before init returns no prediction.
C27_ModelNeverMutated ==
    /\ [][loaded_model # 0 => loaded_model' = loaded_model]_vars
    /\ [][answers' # answers => loaded_model' = loaded_model]_vars
    /\ [](\A i \in 1..Len(answers) :
            /\ answers[i].model \in {0, loaded_model}
            /\ answers[i].model = 0 => answers[i].resp.status = "raised"
            /\ answers[i].resp.status = "returned"
                  => answers[i].resp.labels
                        = <<Predict(loaded_model, answers[i].req.data)>>)
    /\ [](\A i, j \in 1..Len(answers) :
            (/\ answers[i].req = answers[j].req
             /\ answers[i].model # 0
             /\ answers[j].model # 0)
               => answers[i].resp = answers[j].resp)

\* C27 witness: after init the same vector was requested twice, with another
\* request in between, and got the same prediction both times.
C27_Witness ==
    /\ Len(answers) = 3
    /\ loaded_model # 0
    /\ answers[1].req.kind = "vector"
    /\ answers[1].resp.status = "returned"
    /\ answers[2].req # answers[1].req
    /\ answers[3].req = answers[1].req
    /\ answers[3].resp = answers[1].resp

\* C27 witness: a request with a feature vector handled before init raised.
C27_WitnessBeforeInit ==
    /\ Len(answers) >= 1
    /\ answers[1].model = 0
    /\ answers[1].req.kind = "vector"
    /\ answers[1].resp = Raised("NameError")

\* ----------------------------------- dataset registration cell: properties

\* The number of times s occurs in the sequence q.
Occurrences(q, s) == Cardinality({i \in 1..Len(q) : q[i] = s})

\* C29: however often the cell is run, 'diabetes' is registered at most once
\* and never gets a second version: registration is attempted only while no
\* dataset of that name is in the workspace; an exception raised by the
\* registration is printed and the cell finishes normally, with nothing
\* registered.
C29_RegisteredAtMostOnce ==
    /\ [](ds_versions <= 1)
    /\ [](Occurrences(cell_prints, "Dataset is registered") = ds_versions)
    /\ [](cpc \in {"get", "try"} => ds_versions = 0)
    /\ [][ds_versions' # ds_versions => (cpc = "try" /\ ds_versions = 0)]_vars
    /\ [][(cpc = "try" /\ cpc' # "try") => cpc' = "finished"]_vars
    /\ [][(cpc = "try" /\ cpc' # "try" /\ ds_versions' = ds_versions)
             => cell_prints' = cell_prints \o <<"Registering Dataset", "ex">>]_vars
    /\ [][(ds_versions = 1 /\ cell_runs' # cell_runs)
             => (/\ cpc' = "finished"
                 /\ cell_prints' = Append(cell_prints, "Dataset already registered."))]_vars

\* C29 witness: the first run's registration failed and was printed, the
\* second run registered the dataset, the third found it registered.
C29_Witness ==
    /\ cell_runs = 3
    /\ cpc = "finished"
    /\ ds_versions = 1
    /\ cell_prints = <<"Registering Dataset", "ex", "Registering Dataset",
                       "Dataset is registered", "Dataset already registered.">>

\* --------------------------------------------- init-lab-vm.ps1: properties

\* The lines the executions have appended so far.
Appended == SubSeq(hosts, Len(hosts0) + 1, Len(hosts))

\* C30: the ServerManager task is disabled before any line is appended; the
\* pre-existing lines stay as they were, in place; the appended lines are the
\* ten entries in the order of the script, once per execution, so that n
\* finished executions leave 10 * n appended lines.
C30_AppendsTenEntries ==
    /\ Len(HostEntries) = 10
    /\ (hpc >= 1 /\ script_runs >= 1) => task = "Disabled"
    /\ Len(hosts) > Len(hosts0) => task = "Disabled"
    /\ Len(hosts) >= Len(hosts0)
    /\ SubSeq(hosts, 1, Len(hosts0)) = hosts0
    /\ \A k \in 1..Len(Appended) : Appended[k] = HostEntries[((k - 1) % 10) + 1]
    /\ hpc = ScriptEnd => Len(Appended) = 10 * script_runs
    /\ (hpc \in 1..10 /\ script_runs >= 1)
          => Len(Appended) = 10 * (script_runs - 1) + (hpc - 1)

\* C30 witness: the script has finished twice on a hosts file that held two
\* lines, one of them equal to an entry: the file now holds those two lines
\* followed by the ten entries twice.
C30_Witness ==
    /\ script_runs = 2
    /\ hpc = ScriptEnd
    /\ Len(hosts0) = 2
    /\ hosts = hosts0 \o HostEntries \o HostEntries
    /\ task = "Disabled"

====
